---- MODULE Spec2Model ----
(***************************************************************************)
(* Model of the ENEM crawler (src/download_enem.py): the text normalizer,  *)
(* the callout search and link classification of the extractor, the        *)
(* retrying downloader and the sequential main flow over the year tabs.    *)
(*                                                                         *)
(* Text is a sequence of characters.  An ASCII character is the one-       *)
(* character string itself; a non-ASCII code point is named by its code    *)
(* point ("U+2013" is the en dash).  A Python value that may be None is a  *)
(* record [none, s].                                                       *)
(***************************************************************************)
EXTENDS Integers, Sequences, FiniteSets, TLC

VARIABLES
    \* normalizar_texto_para_comparacao applied once and twice
    texto, n_pc, normalizado, renormalizado,
    \* the link classification loop over one harvested anchor sequence
    harvested, c_pc, prova_link_found, gabarito_link_found,
    \* one extraction pass over one year-scope
    escopo, e_ano, e_pc, links_encontrados, achados,
    \* one call of baixar_arquivo
    dl_pc, max_retries, attempt, requisicoes, outcomes, dl_result,
    caminho_destino,
    \* one process running main, and the runs before it
    m_pc, execucao, pagina, driver, anos_disponiveis, i_ano,
    links_para_baixar, i_link, abas_tentadas, anos_extraidos,
    chamadas_baixar, pulados, resumo_emitido, fatal, houve_falha,
    anterior_completa,
    \* the process-wide report
    REPORTS,
    \* the files and the year directories under OUTPUT_DIR
    arquivos, diretorios

dlVars ==
    <<dl_pc, max_retries, attempt, requisicoes, outcomes, dl_result,
      caminho_destino>>
mainVars ==
    <<m_pc, execucao, pagina, driver, anos_disponiveis, i_ano,
      links_para_baixar, i_link, abas_tentadas, anos_extraidos,
      chamadas_baixar, pulados, resumo_emitido, fatal, houve_falha,
      anterior_completa>>
diskVars == <<arquivos, diretorios>>
classVars == <<harvested, c_pc, prova_link_found, gabarito_link_found>>
extVars == <<escopo, e_ano, e_pc, links_encontrados, achados>>
normVars == <<texto, n_pc, normalizado, renormalizado>>

(***************************************************************************)
(* Characters                                                              *)
(***************************************************************************)
LowerSeq ==
    <<"a","b","c","d","e","f","g","h","i","j","k","l","m",
      "n","o","p","q","r","s","t","u","v","w","x","y","z">>

UpperSeq ==
    <<"A","B","C","D","E","F","G","H","I","J","K","L","M",
      "N","O","P","Q","R","S","T","U","V","W","X","Y","Z">>

DigitChars == {"0","1","2","3","4","5","6","7","8","9"}

\* the class [a-z0-9] of the regular expression of step 5
AlnumLower == {LowerSeq[i] : i \in 1..Len(LowerSeq)} \cup DigitChars

\* the class \s of the regular expression of step 6 (ASCII part)
Whitespace == {" ", "\n", "\t"}

\* the code points outside ASCII that the model's texts use:
\* en dash, the ordinal indicators, c/C cedilla, a/A tilde, the combining
\* cedilla and tilde, the no-break space character and the euro sign
NonAscii ==
    {"U+2013", "U+00BA", "U+00AA", "U+00E7", "U+00C7", "U+00E3", "U+00C3",
     "U+0327", "U+0303", "U+00A0", "U+20AC"}

\* canonical decomposition (NFD) of one character
Decompose(c) ==
    CASE c = "U+00E7" -> <<"c", "U+0327">>
      [] c = "U+00C7" -> <<"C", "U+0327">>
      [] c = "U+00E3" -> <<"a", "U+0303">>
      [] c = "U+00C3" -> <<"A", "U+0303">>
      [] OTHER -> <<c>>

\* str.lower() of one ASCII character
LowerChar(c) ==
    IF \E i \in 1..Len(UpperSeq) : UpperSeq[i] = c
    THEN LowerSeq[CHOOSE i \in 1..Len(UpperSeq) : UpperSeq[i] = c]
    ELSE c

(***************************************************************************)
(* String primitives of the Python runtime                                 *)
(***************************************************************************)
RECURSIVE StrReplace(_, _, _)
\* s.replace(old, new): left to right, non-overlapping
StrReplace(s, old, new) ==
    IF Len(s) < Len(old) THEN s
    ELSE IF SubSeq(s, 1, Len(old)) = old
         THEN new \o StrReplace(SubSeq(s, Len(old) + 1, Len(s)), old, new)
         ELSE <<s[1]>> \o StrReplace(Tail(s), old, new)

RECURSIVE NfdAsciiIgnore(_)
\* unicodedata.normalize("NFD", s).encode("ascii", "ignore").decode("utf-8")
NfdAsciiIgnore(s) ==
    IF s = <<>> THEN <<>>
    ELSE SelectSeq(Decompose(s[1]), LAMBDA c : c \notin NonAscii)
         \o NfdAsciiIgnore(Tail(s))

\* s.lower()
StrLower(s) == [i \in 1..Len(s) |-> LowerChar(s[i])]

\* membership in a character class, or in its complement
InClass(c, class, negated) == IF negated THEN c \notin class ELSE c \in class

RECURSIVE DropRun(_, _, _)
DropRun(s, class, negated) ==
    IF s # <<>> /\ InClass(s[1], class, negated)
    THEN DropRun(Tail(s), class, negated)
    ELSE s

RECURSIVE ReSubRuns(_, _, _)
\* re.sub(r"[class]+", " ", s): every maximal run becomes one space
ReSubRuns(s, class, negated) ==
    IF s = <<>> THEN <<>>
    ELSE IF InClass(s[1], class, negated)
         THEN <<" ">> \o ReSubRuns(DropRun(s, class, negated), class, negated)
         ELSE <<s[1]>> \o ReSubRuns(Tail(s), class, negated)

RECURSIVE DropTrailing(_)
DropTrailing(s) ==
    IF s # <<>> /\ s[Len(s)] \in Whitespace
    THEN DropTrailing(SubSeq(s, 1, Len(s) - 1))
    ELSE s

\* s.strip()
StrStrip(s) == DropTrailing(DropRun(s, Whitespace, FALSE))

\* needle in haystack (substring test)
Contains(haystack, needle) ==
    \E i \in 0..(Len(haystack) - Len(needle)) :
        SubSeq(haystack, i + 1, i + Len(needle)) = needle

(***************************************************************************)
(* normalizar_texto_para_comparacao                                        *)
(***************************************************************************)
None == [none |-> TRUE, s |-> <<>>]
Str(s) == [none |-> FALSE, s |-> s]

\* step 1: the &nbsp; entity becomes a space, the en dash a hyphen
TratarEspeciais(s) ==
    StrReplace(StrReplace(s, <<"&","n","b","s","p",";">>, <<" ">>),
               <<"U+2013">>, <<"-">>)

\* step 2: the ordinal indicators are removed
RemoverOrdinais(s) ==
    StrReplace(StrReplace(s, <<"U+00BA">>, <<>>), <<"U+00AA">>, <<>>)

\* step 5 without its substitution (a regular expression that matches nothing)
SubstituirNaoAlfanumericosOmitido(s) == s

\* step 5: every run outside [a-z0-9] becomes one space
SubstituirNaoAlfanumericos(s) == ReSubRuns(s, AlnumLower, TRUE)

\* step 6: whitespace runs become one space, the ends are trimmed
PadronizarEspacos(s) == StrStrip(ReSubRuns(s, Whitespace, FALSE))

normalizar_texto_para_comparacao(t) ==
    IF t.none THEN <<>>
    ELSE PadronizarEspacos(
           SubstituirNaoAlfanumericos(
             StrLower(
               NfdAsciiIgnore(
                 RemoverOrdinais(
                   TratarEspeciais(t.s))))))

(***************************************************************************)
(* Inputs of the normalizer: concatenations of at most MaxFragments pieces *)
(***************************************************************************)
MaxFragments == 3

Fragments ==
    { <<"&","n","b","s","p",";">>, <<"&","n","b">>, <<"s","p",";">>,
      <<"U+2013">>, <<"U+00BA">>, <<"U+00C7">>, <<"U+20AC">>,
      <<"A">>, <<"z">>, <<"7">>, <<" ">>, <<"-">>, <<"\n">> }

RECURSIVE Concat(_)
Concat(parts) == IF parts = <<>> THEN <<>> ELSE parts[1] \o Concat(Tail(parts))

Textos ==
    { Concat(parts) :
        parts \in UNION { [1..n -> Fragments] : n \in 0..MaxFragments } }

NormInit ==
    /\ texto \in {None} \cup {Str(s) : s \in Textos}
    /\ n_pc = "start"
    /\ normalizado = <<>>
    /\ renormalizado = <<>>

\* no normalizer run is part of this behaviour
NormIdle ==
    /\ texto = None
    /\ n_pc = "idle"
    /\ normalizado = <<>>
    /\ renormalizado = <<>>

\* normalize(texto)
Normalizar ==
    /\ n_pc = "start"
    /\ normalizado' = normalizar_texto_para_comparacao(texto)
    /\ n_pc' = "once"
    /\ UNCHANGED <<texto, renormalizado, classVars, extVars, dlVars, mainVars,
                   REPORTS, diskVars>>

\* normalize(normalize(texto))
Renormalizar ==
    /\ n_pc = "once"
    /\ renormalizado' = normalizar_texto_para_comparacao(Str(normalizado))
    /\ n_pc' = "twice"
    /\ UNCHANGED <<texto, normalizado, classVars, extVars, dlVars, mainVars,
                   REPORTS, diskVars>>

(***************************************************************************)
(* Texts of the page and keywords of the catalog                           *)
(***************************************************************************)
kw_1_dia ==
    <<"1"," ","d","i","a">>

kw_2_dia ==
    <<"2"," ","d","i","a">>

kw_caderno_1 ==
    <<"c","a","d","e","r","n","o"," ","1">>

kw_caderno_7 ==
    <<"c","a","d","e","r","n","o"," ","7">>

kw_caderno ==
    <<"c","a","d","e","r","n","o">>

kw_azul ==
    <<"a","z","u","l">>

kw_aplicacao_regular ==
    <<"a","p","l","i","c","a","c","a","o"," ","r","e","g","u","l","a","r">>

kw_aplicacao_digital ==
    <<"a","p","l","i","c","a","c","a","o"," ","d","i","g","i","t","a","l">>

kw_reaplicacao_ppl ==
    <<"r","e","a","p","l","i","c","a","c","a","o"," ","p","p","l">>

kw_prova ==
    <<"p","r","o","v","a">>

kw_gabarito ==
    <<"g","a","b","a","r","i","t","o">>

TextoRegularD1 ==
    <<"1","U+00BA"," ","D","i","a"," ","U+2013"," ","C","a","d","e","r","n","o"," ","1"," ","U+2013"," ","A","z","u","l"," ","U+2013"," ","A","p","l","i","c","a","U+00E7","U+00E3","o"," ","R","e","g","u","l","a","r">>

TextoRegularD1Maiusculo ==
    <<"1","U+00BA"," ","D","I","A"," ","-"," ","C","A","D","E","R","N","O"," ","1"," ","-"," ","A","Z","U","L"," ","-"," ","A","P","L","I","C","A","U+00C7","U+00C3","O"," ","R","E","G","U","L","A","R">>

TextoReaplicacaoD2 ==
    <<"2","U+00BA"," ","D","i","a"," ","-"," ","C","a","d","e","r","n","o"," ","7"," ","-"," ","A","z","u","l"," ","-"," ","R","e","a","p","l","i","c","a","U+00E7","U+00E3","o","/","P","P","L">>

TextoOutro ==
    <<"C","a","r","t","U+00E3","o","-","r","e","s","p","o","s","t","a">>

AncoraProva ==
    <<"P","r","o","v","a">>

AncoraGabarito ==
    <<"G","a","b","a","r","i","t","o">>

AncoraProvaEGabarito ==
    <<"P","r","o","v","a"," ","e"," ","G","a","b","a","r","i","t","o">>

AncoraEdital ==
    <<"E","d","i","t","a","l">>

UrlProva ==
    <<"/","d","/","p","1",".","p","d","f">>

UrlGabarito ==
    <<"/","d","/","g","1",".","p","d","f">>

UrlAmbos ==
    <<"/","d","/","p","g",".","z","i","p">>

UrlSemExt ==
    <<"/","d","/","v","i","e","w">>

UrlOutro ==
    <<"/","d","/","e",".","p","d","f">>

UrlTema ==
    <<"/","d","/","t","e","m","a",".","p","d","f">>


\* the texts of the p.callout elements of the modelled pages
CalloutTexts ==
    {TextoRegularD1, TextoRegularD1Maiusculo, TextoReaplicacaoD2, TextoOutro}

\* the texts of the <a> elements of the modelled pages
AnchorTexts ==
    {AncoraProva, AncoraGabarito, AncoraProvaEGabarito, AncoraEdital}

\* normalizar_texto_para_comparacao of every text of the modelled pages,
\* computed once
NormalizedPageTexts ==
    [t \in CalloutTexts \cup AnchorTexts |->
        normalizar_texto_para_comparacao(Str(t))]

\* normalizar_texto_para_comparacao(element.text)
NormalizarTextoDaPagina(t) ==
    IF t \in DOMAIN NormalizedPageTexts THEN NormalizedPageTexts[t]
    ELSE normalizar_texto_para_comparacao(Str(t))

\* truthiness of a Python value that is None or a string
Truthy(v) == ~v.none /\ v.s # <<>>

\* an entry of REPORTS: the level its text starts with (AVISO, ERRO, CRITICO),
\* the message pattern and the values formatted into it
Diag(nivel, msg, ano, tipo) ==
    [nivel |-> nivel, msg |-> msg, ano |-> ano, tipo |-> tipo]

(***************************************************************************)
(* _extrair_prova_gabarito_links: the callout search                       *)
(***************************************************************************)
\* all(keyword in normalized_element_text for keyword in keywords_to_match)
CalloutMatches(element, keywords_to_match) ==
    LET normalized_element_text == NormalizarTextoDaPagina(element.text)
    IN \A k \in 1..Len(keywords_to_match) :
           Contains(normalized_element_text, keywords_to_match[k])

RECURSIVE FindCalloutLast(_, _, _, _)
\* the search without its break: the last matching element wins
FindCalloutLast(callout_elements, keywords_to_match, i, found) ==
    IF i > Len(callout_elements) THEN found
    ELSE FindCalloutLast(callout_elements, keywords_to_match, i + 1,
             IF CalloutMatches(callout_elements[i], keywords_to_match)
             THEN i ELSE found)

FindCalloutFromLast(callout_elements, keywords_to_match, i) ==
    FindCalloutLast(callout_elements, keywords_to_match, i, 0)

RECURSIVE FindCalloutFrom(_, _, _)
\* the for loop from element i on: the position of the element found, 0 for
\* found_callout = None
FindCalloutFrom(callout_elements, keywords_to_match, i) ==
    IF i > Len(callout_elements) THEN 0
    ELSE IF CalloutMatches(callout_elements[i], keywords_to_match) THEN i
         ELSE FindCalloutFrom(callout_elements, keywords_to_match, i + 1)

(***************************************************************************)
(* _extrair_prova_gabarito_links: the link classification                  *)
(***************************************************************************)
\* one pass of the loop body: if "prova" ... elif "gabarito" ...
ClassifyStep(link_element, latch) ==
    LET link_text_normalized == NormalizarTextoDaPagina(link_element.text)
        prova_branch ==
            Contains(link_text_normalized, kw_prova) /\ ~Truthy(latch.prova)
        gabarito_branch ==
            /\ ~prova_branch
            /\ Contains(link_text_normalized, kw_gabarito)
            /\ ~Truthy(latch.gabarito)
    IN [prova |-> IF prova_branch THEN link_element.href ELSE latch.prova,
        gabarito |->
            IF gabarito_branch THEN link_element.href ELSE latch.gabarito]

RECURSIVE ClassifyFrom(_, _, _)
\* the for loop from anchor i on, leaving once both latches are set
ClassifyFrom(links, i, latch) ==
    IF i > Len(links) THEN latch
    ELSE LET next == ClassifyStep(links[i], latch)
         IN IF Truthy(next.prova) /\ Truthy(next.gabarito) THEN next
            ELSE ClassifyFrom(links, i + 1, next)

ClassifyLinks(links) ==
    ClassifyFrom(links, 1, [prova |-> None, gabarito |-> None])

(***************************************************************************)
(* _extrair_prova_gabarito_links                                           *)
(***************************************************************************)
\* the result of one call: the links returned, the entries appended to
\* REPORTS, and the locals found_callout, prova_link_found, gabarito_link_found
ExtractResult(tipo_base, links, reports, found, latch) ==
    [tipo |-> tipo_base, links |-> links, reports |-> reports,
     found_callout |-> found, prova |-> latch.prova,
     gabarito |-> latch.gabarito]

NoLatch == [prova |-> None, gabarito |-> None]

\* the except NoSuchElementException branch without its REPORTS.append
CalloutNotFoundSilent(ano, tipo_base) ==
    ExtractResult(tipo_base, <<>>, <<>>, 0, NoLatch)

\* raise NoSuchElementException, caught by the function's own handler
CalloutNotFound(ano, tipo_base) ==
    ExtractResult(tipo_base, <<>>,
        <<Diag("AVISO", "Nao encontrado o padrao", ano, tipo_base)>>, 0, NoLatch)

\* the answer key looked at only when the exam link was found
extrair_prova_gabarito_links_bloqueante(container_elemento, keywords_to_match, ano, tipo_base) ==
    IF container_elemento.callout_query = "error"
    THEN ExtractResult(tipo_base, <<>>,
             <<Diag("ERRO", "Erro inesperado ao extrair links", ano, tipo_base)>>,
             0, NoLatch)
    ELSE
    LET callout_elements == container_elemento.callouts
        found == FindCalloutFrom(callout_elements, keywords_to_match, 1)
    IN IF found = 0 THEN CalloutNotFound(ano, tipo_base)
       ELSE
       LET latch == ClassifyLinks(callout_elements[found].links)
           gabarito_part ==
               IF Truthy(latch.gabarito)
               THEN [links |-> <<[ano |-> ano, tipo |-> <<tipo_base, "gabarito_azul">>,
                                  url |-> latch.gabarito]>>,
                     reports |-> <<>>]
               ELSE [links |-> <<>>,
                     reports |-> <<Diag("AVISO", "Link de gabarito nao encontrado",
                                        ano, tipo_base)>>]
       IN IF Truthy(latch.prova)
          THEN ExtractResult(tipo_base,
                   <<[ano |-> ano, tipo |-> <<tipo_base, "prova_azul">>,
                      url |-> latch.prova]>> \o gabarito_part.links,
                   gabarito_part.reports, found, latch)
          ELSE ExtractResult(tipo_base, <<>>,
                   <<Diag("AVISO", "Link de prova nao encontrado", ano, tipo_base)>>,
                   found, latch)

extrair_prova_gabarito_links(container_elemento, keywords_to_match, ano, tipo_base) ==
    IF container_elemento.callout_query = "error"
    THEN ExtractResult(tipo_base, <<>>,
             <<Diag("ERRO", "Erro inesperado ao extrair links", ano, tipo_base)>>,
             0, NoLatch)
    ELSE
    LET callout_elements == container_elemento.callouts
        found == FindCalloutFrom(callout_elements, keywords_to_match, 1)
    IN IF found = 0 THEN CalloutNotFound(ano, tipo_base)
       ELSE
       LET latch == ClassifyLinks(callout_elements[found].links)
           prova_part ==
               IF Truthy(latch.prova)
               THEN [links |-> <<[ano |-> ano, tipo |-> <<tipo_base, "prova_azul">>,
                                  url |-> latch.prova]>>,
                     reports |-> <<>>]
               ELSE [links |-> <<>>,
                     reports |-> <<Diag("AVISO", "Link de prova nao encontrado",
                                        ano, tipo_base)>>]
           gabarito_part ==
               IF Truthy(latch.gabarito)
               THEN [links |-> <<[ano |-> ano, tipo |-> <<tipo_base, "gabarito_azul">>,
                                  url |-> latch.gabarito]>>,
                     reports |-> <<>>]
               ELSE [links |-> <<>>,
                     reports |-> <<Diag("AVISO", "Link de gabarito nao encontrado",
                                        ano, tipo_base)>>]
       IN ExtractResult(tipo_base,
              prova_part.links \o gabarito_part.links,
              prova_part.reports \o gabarito_part.reports,
              found, latch)

(***************************************************************************)
(* extrair_links_provas_e_gabaritos                                        *)
(***************************************************************************)
regular_d1_keywords == <<kw_1_dia, kw_caderno_1, kw_azul, kw_aplicacao_regular>>
regular_d2_keywords == <<kw_2_dia, kw_caderno_7, kw_azul, kw_aplicacao_regular>>
digital_d1_keywords == <<kw_1_dia, kw_caderno, kw_azul, kw_aplicacao_digital>>
digital_d2_keywords == <<kw_2_dia, kw_caderno, kw_azul, kw_aplicacao_digital>>
reap_d1_keywords == <<kw_1_dia, kw_caderno_1, kw_azul, kw_reaplicacao_ppl>>
reap_d2_keywords == <<kw_2_dia, kw_caderno_7, kw_azul, kw_reaplicacao_ppl>>

\* the calls made before the essay theme search, in the order of the code
CategoriasAntesDoTema ==
    <<[tipo |-> "regular_d1", keywords |-> regular_d1_keywords],
      [tipo |-> "regular_d2", keywords |-> regular_d2_keywords],
      [tipo |-> "digital_d1", keywords |-> digital_d1_keywords],
      [tipo |-> "digital_d2", keywords |-> digital_d2_keywords]>>

\* the calls made after the essay theme search
CategoriasDepoisDoTema ==
    <<[tipo |-> "reaplicacao_d1", keywords |-> reap_d1_keywords],
      [tipo |-> "reaplicacao_d2", keywords |-> reap_d2_keywords]>>

\* the results of the calls for a list of categories, in order
ExtrairCategorias(container_ano, ano, categorias) ==
    [k \in 1..Len(categorias) |->
        extrair_prova_gabarito_links(container_ano, categorias[k].keywords,
                                     ano, categorias[k].tipo)]

RECURSIVE FlattenFrom(_, _, _)
FlattenFrom(results, field, k) ==
    IF k > Len(results) THEN <<>>
    ELSE results[k][field] \o FlattenFrom(results, field, k + 1)

\* links_encontrados.extend(...) and the REPORTS appends, call after call
FlattenField(results, field) == FlattenFrom(results, field, 1)

\* the essay theme search: find_element by the raw anchor text
TemaRedacao(container_ano, ano) ==
    IF container_ano.tema.status = "found"
    THEN [links |-> <<[ano |-> ano, tipo |-> <<"reaplicacao_redacao">>,
                       url |-> container_ano.tema.href]>>,
          reports |-> <<>>]
    ELSE [links |-> <<>>,
          reports |-> <<Diag("AVISO", "Tema da Redacao nao encontrado", ano, "")>>]

\* the one element of a singleton set
TheOne(S) == CHOOSE x \in S : TRUE

\* the essay theme search moved after the last callout category
ExtrairDesdeOTemaPorUltimo(scope, ano, antes) ==
    IF scope.tema.status = "error"
    THEN TheOne(
        { [links |-> FlattenField(antes \o depois, "links"),
           achados |-> antes \o depois,
           reports |-> FlattenField(antes \o depois, "reports")
              \o <<Diag("ERRO", "Erro ao extrair links para o ano", ano, "")>>] :
          depois \in {ExtrairCategorias(scope, ano, CategoriasDepoisDoTema)} })
    ELSE TheOne(
        { [links |-> FlattenField(antes \o depois, "links")
                         \o TemaRedacao(scope, ano).links,
           achados |-> antes \o depois,
           reports |-> FlattenField(antes \o depois, "reports")
                         \o TemaRedacao(scope, ano).reports] :
          depois \in {ExtrairCategorias(scope, ano, CategoriasDepoisDoTema)} })

\* the pass from the essay theme search on, after the calls whose results
\* are antes
ExtrairDesdeOTema(scope, ano, antes) ==
    IF scope.tema.status = "error"
    THEN [links |-> FlattenField(antes, "links"), achados |-> antes,
          reports |-> FlattenField(antes, "reports")
              \o <<Diag("ERRO", "Erro ao extrair links para o ano", ano, "")>>]
    ELSE TheOne(
        { [links |-> FlattenField(antes, "links")
                         \o TemaRedacao(scope, ano).links
                         \o FlattenField(depois, "links"),
           achados |-> antes \o depois,
           reports |-> FlattenField(antes, "reports")
                         \o TemaRedacao(scope, ano).reports
                         \o FlattenField(depois, "reports")] :
          depois \in {ExtrairCategorias(scope, ano, CategoriasDepoisDoTema)} })

\* the value returned, the entries appended to REPORTS and, for the callout
\* categories the pass reached, the locals of each call
extrair_links_provas_e_gabaritos(scope, ano) ==
    IF scope.container = "missing"
    THEN [links |-> <<>>, achados |-> <<>>,
          reports |-> <<Diag("ERRO", "Container da aba nao encontrado", ano, "")>>]
    ELSE IF scope.container = "error"
    THEN [links |-> <<>>, achados |-> <<>>,
          reports |-> <<Diag("ERRO", "Erro ao extrair links para o ano", ano, "")>>]
    ELSE TheOne(
        { ExtrairDesdeOTema(scope, ano, antes) :
          antes \in {ExtrairCategorias(scope, ano, CategoriasAntesDoTema)} })

(***************************************************************************)
(* Pages: anchors, harvested sequences, callouts, year-scopes              *)
(***************************************************************************)
MaxAnchors == 3
MaxCallouts == 2

\* an <a> element: its text and its href attribute (None when absent)
Anchors ==
    { [text |-> AncoraProva, href |-> Str(UrlProva)],
      [text |-> AncoraGabarito, href |-> Str(UrlGabarito)],
      [text |-> AncoraProvaEGabarito, href |-> Str(UrlAmbos)],
      [text |-> AncoraProva, href |-> None],
      [text |-> AncoraEdital, href |-> Str(UrlOutro)] }

\* every anchor sequence of at most MaxAnchors elements
Harvests == UNION { [1..n -> Anchors] : n \in 0..MaxAnchors }

\* the anchor sequences found after the callouts of the modelled pages
HarvestsDaPagina ==
    { <<>>,
      <<[text |-> AncoraProva, href |-> Str(UrlProva)],
        [text |-> AncoraGabarito, href |-> Str(UrlGabarito)]>>,
      <<[text |-> AncoraGabarito, href |-> Str(UrlSemExt)],
        [text |-> AncoraEdital, href |-> Str(UrlOutro)]>>,
      <<[text |-> AncoraProvaEGabarito, href |-> Str(UrlAmbos)]>> }

\* a p.callout element and the anchors its XPath query returns
Callouts == [text : CalloutTexts, links : HarvestsDaPagina]

TemaOutcomes ==
    { [status |-> "found", href |-> Str(UrlTema)],
      [status |-> "found", href |-> None],
      [status |-> "missing", href |-> None],
      [status |-> "error", href |-> None] }

\* a year-scope: whether div.tab-content is found, whether the p.callout
\* query answers, the callouts in document order, the essay theme anchor
Scopes ==
    { [container |-> c, callout_query |-> "ok", callouts |-> <<>>,
       tema |-> [status |-> "missing", href |-> None]] : c \in {"missing", "error"} }
    \cup
    [container : {"found"}, callout_query : {"error"}, callouts : {<<>>},
     tema : TemaOutcomes]
    \cup
    [container : {"found"}, callout_query : {"ok"},
     callouts : UNION { [1..n -> Callouts] : n \in 0..MaxCallouts },
     tema : TemaOutcomes]

AnosDaPagina == {"2023", "2024"}

(***************************************************************************)
(* The classification loop on its own                                      *)
(***************************************************************************)
ClassInit ==
    /\ harvested \in Harvests
    /\ c_pc = "start"
    /\ prova_link_found = None
    /\ gabarito_link_found = None

ClassIdle ==
    /\ harvested = <<>>
    /\ c_pc = "idle"
    /\ prova_link_found = None
    /\ gabarito_link_found = None

Classificar ==
    /\ c_pc = "start"
    /\ LET latch == ClassifyLinks(harvested)
       IN /\ prova_link_found' = latch.prova
          /\ gabarito_link_found' = latch.gabarito
    /\ c_pc' = "done"
    /\ UNCHANGED <<harvested, normVars, extVars, dlVars, mainVars, REPORTS,
                   diskVars>>

(***************************************************************************)
(* One extraction pass on its own                                          *)
(***************************************************************************)
ExtInit ==
    /\ escopo \in Scopes
    /\ e_ano \in AnosDaPagina
    /\ e_pc = "start"
    /\ links_encontrados = <<>>
    /\ achados = <<>>

ExtIdle ==
    /\ escopo = [container |-> "missing", callout_query |-> "ok",
                 callouts |-> <<>>, tema |-> [status |-> "missing", href |-> None]]
    /\ e_ano = ""
    /\ e_pc = "idle"
    /\ links_encontrados = <<>>
    /\ achados = <<>>

Extrair ==
    /\ e_pc = "start"
    /\ \E r \in {extrair_links_provas_e_gabaritos(escopo, e_ano)} :
          /\ links_encontrados' = r.links
          /\ achados' = r.achados
          /\ REPORTS' = REPORTS \o r.reports
    /\ e_pc' = "done"
    /\ UNCHANGED <<escopo, e_ano, normVars, classVars, dlVars, mainVars,
                   diskVars>>

(***************************************************************************)
(* baixar_arquivo                                                          *)
(***************************************************************************)
MaxTentativas == 4

\* the default of the parameter max_retries
MaxRetriesDefault == 3

EmptyDisk == [p \in {} |-> "complete"]

\* no destination: no call is running
NoPath == [ano |-> "", tipo |-> <<>>, ext |-> <<>>]

\* an attempt ends in one of: the body streamed to the file ("ok"), a
\* ConnectionError or Timeout ("transient"), another RequestException
\* ("request"), any other exception ("generic").  A failure is raised either
\* before the destination is opened ("pre": by requests.get, raise_for_status
\* or open) or while the body is streamed into it ("mid": by iter_content or
\* write), and then leaves a truncated file behind.
FailureStages == {"pre", "mid"}

\* open(caminho_destino, "wb") and the chunks written before the failure
AfterFailure(stage) ==
    IF stage = "mid" THEN (caminho_destino :> "partial") @@ arquivos
    ELSE arquivos

\* range(max_retries) off by one: one iteration too many
LoopContinuesOffByOne == attempt + 1 <= max_retries

\* for attempt in range(max_retries): another iteration follows this one
LoopContinues == attempt + 1 < max_retries

\* the test with max_retries in the place of max_retries - 1
AttemptsRemainOffByOne == attempt < max_retries

\* if attempt < max_retries - 1: sleep before the retry; else: report
AttemptsRemain == attempt < max_retries - 1

\* the call starts: the loop variable and the history of the call
StartDownload(path, retries) ==
    /\ dl_pc' = "attempting"
    /\ max_retries' = retries
    /\ attempt' = 0
    /\ requisicoes' = 0
    /\ outcomes' = <<>>
    /\ dl_result' = "none"
    /\ caminho_destino' = path

\* the call has returned: its locals are gone
ReturnFromDownload ==
    /\ dl_pc' = "idle"
    /\ max_retries' = MaxRetriesDefault
    /\ attempt' = 0
    /\ requisicoes' = 0
    /\ outcomes' = <<>>
    /\ dl_result' = "none"
    /\ caminho_destino' = NoPath

\* requests.get, raise_for_status and the streaming all succeed: return True
DlSucesso ==
    /\ dl_pc = "attempting"
    /\ requisicoes' = requisicoes + 1
    /\ outcomes' = Append(outcomes, [kind |-> "ok", stage |-> "mid"])
    /\ arquivos' = (caminho_destino :> "complete") @@ arquivos
    /\ dl_result' = "True"
    /\ dl_pc' = "done"
    /\ UNCHANGED <<max_retries, attempt, caminho_destino, REPORTS, diretorios,
                   normVars, classVars, extVars, mainVars>>

\* except (ConnectionError, Timeout): sleep and retry, or report and give up
DlTransiente ==
    /\ dl_pc = "attempting"
    /\ \E stage \in FailureStages :
          /\ outcomes' = Append(outcomes, [kind |-> "transient", stage |-> stage])
          /\ arquivos' = AfterFailure(stage)
    /\ requisicoes' = requisicoes + 1
    /\ REPORTS' =
          IF AttemptsRemain THEN REPORTS
          ELSE Append(REPORTS, Diag("ERRO", "Falha ao baixar apos tentativas",
                                    caminho_destino.ano, caminho_destino.tipo))
    /\ IF LoopContinues
       THEN /\ attempt' = attempt + 1
            /\ UNCHANGED <<dl_pc, dl_result>>
       ELSE /\ dl_result' = "False"
            /\ dl_pc' = "done"
            /\ UNCHANGED attempt
    /\ UNCHANGED <<max_retries, caminho_destino, diretorios,
                   normVars, classVars, extVars, mainVars>>

\* the handler of RequestException with continue in the place of break
DlErroRequisicaoSemBreak ==
    /\ dl_pc = "attempting"
    /\ \E stage \in FailureStages :
          /\ outcomes' = Append(outcomes, [kind |-> "request", stage |-> stage])
          /\ arquivos' = AfterFailure(stage)
    /\ requisicoes' = requisicoes + 1
    /\ REPORTS' = Append(REPORTS, Diag("ERRO", "Erro de requisicao ao baixar",
                                       caminho_destino.ano, caminho_destino.tipo))
    /\ IF LoopContinues
       THEN /\ attempt' = attempt + 1
            /\ UNCHANGED <<dl_pc, dl_result>>
       ELSE /\ dl_result' = "False"
            /\ dl_pc' = "done"
            /\ UNCHANGED attempt
    /\ UNCHANGED <<max_retries, caminho_destino, diretorios,
                   normVars, classVars, extVars, mainVars>>

\* except RequestException: report, break, return False
DlErroRequisicao ==
    /\ dl_pc = "attempting"
    /\ \E stage \in FailureStages :
          /\ outcomes' = Append(outcomes, [kind |-> "request", stage |-> stage])
          /\ arquivos' = AfterFailure(stage)
    /\ requisicoes' = requisicoes + 1
    /\ REPORTS' = Append(REPORTS, Diag("ERRO", "Erro de requisicao ao baixar",
                                       caminho_destino.ano, caminho_destino.tipo))
    /\ dl_result' = "False"
    /\ dl_pc' = "done"
    /\ UNCHANGED <<max_retries, attempt, caminho_destino, diretorios,
                   normVars, classVars, extVars, mainVars>>

\* except Exception: report, break, return False
DlErroGenerico ==
    /\ dl_pc = "attempting"
    /\ \E stage \in FailureStages :
          /\ outcomes' = Append(outcomes, [kind |-> "generic", stage |-> stage])
          /\ arquivos' = AfterFailure(stage)
    /\ requisicoes' = requisicoes + 1
    /\ REPORTS' = Append(REPORTS, Diag("ERRO", "Erro generico ao baixar o arquivo",
                                       caminho_destino.ano, caminho_destino.tipo))
    /\ dl_result' = "False"
    /\ dl_pc' = "done"
    /\ UNCHANGED <<max_retries, attempt, caminho_destino, diretorios,
                   normVars, classVars, extVars, mainVars>>

DlNext == DlSucesso \/ DlTransiente \/ DlErroRequisicao \/ DlErroGenerico

\* the destination of the calls checked on their own
CaminhoExemplo ==
    [ano |-> "2024", tipo |-> <<"regular_d1", "prova_azul">>,
     ext |-> <<".", "p", "d", "f">>]

\* a call with any max_retries from 1 to MaxTentativas, over a destination
\* that does not exist or holds the rest of an earlier attempt
DlInit ==
    /\ dl_pc = "attempting"
    /\ max_retries \in 1..MaxTentativas
    /\ attempt = 0
    /\ requisicoes = 0
    /\ outcomes = <<>>
    /\ dl_result = "none"
    /\ caminho_destino = CaminhoExemplo
    /\ arquivos \in {EmptyDisk, (CaminhoExemplo :> "partial") @@ EmptyDisk}
    /\ diretorios = {"2024"}

DlIdle ==
    /\ dl_pc = "idle"
    /\ max_retries = MaxRetriesDefault
    /\ attempt = 0
    /\ requisicoes = 0
    /\ outcomes = <<>>
    /\ dl_result = "none"
    /\ caminho_destino = NoPath

DiskIdle ==
    /\ arquivos = EmptyDisk
    /\ diretorios = {}

(***************************************************************************)
(* The page served to main                                                 *)
(***************************************************************************)
\* the data-id values of the year tabs in ascending string order
AnosOrdenados == <<"2023", "2024">>

RankAno(a) == CHOOSE i \in 1..Len(AnosOrdenados) : AnosOrdenados[i] = a

\* if ano and ano != "Sobre": anos.append(ano)   ("" is an absent data-id)
FiltrarAnos(tabs) == SelectSeq(tabs, LAMBDA a : a # "" /\ a # "Sobre")

RECURSIVE InsertReverse(_, _)
InsertReverse(a, ordered) ==
    IF ordered = <<>> THEN <<a>>
    ELSE IF RankAno(ordered[1]) < RankAno(a) THEN <<a>> \o ordered
         ELSE <<ordered[1]>> \o InsertReverse(a, Tail(ordered))

RECURSIVE SortedReverse(_)
\* sorted(anos, reverse=True)
SortedReverse(anos) ==
    IF anos = <<>> THEN <<>>
    ELSE InsertReverse(anos[Len(anos)],
                       SortedReverse(SubSeq(anos, 1, Len(anos) - 1)))

\* the list obter_anos_disponiveis returns when its queries answer
obter_anos_disponiveis(tabs) == SortedReverse(FiltrarAnos(tabs))

EscopoCompleto ==
    [container |-> "found", callout_query |-> "ok",
     callouts |-> <<[text |-> TextoRegularD1,
                     links |-> <<[text |-> AncoraProva, href |-> Str(UrlProva)],
                                 [text |-> AncoraGabarito, href |-> Str(UrlSemExt)]>>]>>,
     tema |-> [status |-> "missing", href |-> None]]

EscopoSoTema ==
    [container |-> "found", callout_query |-> "ok", callouts |-> <<>>,
     tema |-> [status |-> "found", href |-> Str(UrlTema)]]

EscopoTemaSemHref ==
    [container |-> "found", callout_query |-> "ok", callouts |-> <<>>,
     tema |-> [status |-> "found", href |-> None]]

EscopoAusente ==
    [container |-> "missing", callout_query |-> "ok", callouts |-> <<>>,
     tema |-> [status |-> "missing", href |-> None]]

\* the pages of the modelled runs: the data-id of every tab in document
\* order and the year-scope of every year
Paginas ==
    { [tabs |-> <<"Sobre", "2023", "2024">>,
       escopos |-> ("2024" :> EscopoCompleto) @@ ("2023" :> EscopoSoTema)],
      [tabs |-> <<"2024", "", "2023">>,
       escopos |-> ("2024" :> EscopoTemaSemHref) @@ ("2023" :> EscopoCompleto)],
      [tabs |-> <<"2023">>,
       escopos |-> ("2024" :> EscopoAusente) @@ ("2023" :> EscopoAusente)],
      [tabs |-> <<"Sobre">>,
       escopos |-> ("2024" :> EscopoAusente) @@ ("2023" :> EscopoAusente)] }

(***************************************************************************)
(* File names                                                              *)
(***************************************************************************)
SetMax(S) == CHOOSE x \in S : \A y \in S : y <= x

\* url.split("/")[-1]
LastSegment(url) ==
    LET slashes == { i \in 1..Len(url) : url[i] = "/" }
    IN IF slashes = {} THEN url
       ELSE SubSeq(url, SetMax(slashes) + 1, Len(url))

\* os.path.splitext(name)[1]: from the last dot on, unless only dots precede it
SplitExt(name) ==
    LET dots == { i \in 1..Len(name) : name[i] = "." }
    IN IF dots = {} THEN <<>>
       ELSE IF \E j \in 1..(SetMax(dots) - 1) : name[j] # "."
            THEN SubSeq(name, SetMax(dots), Len(name))
            ELSE <<>>

\* the extension of the file name, ".pdf" when the URL has none
FileExtension(url) ==
    IF SplitExt(LastSegment(url)) = <<>> THEN <<".", "p", "d", "f">>
    ELSE SplitExt(LastSegment(url))

\* os.path.join(caminho_base_ano, f"ENEM_{ano}_{tipo_prova}{file_extension}")
CaminhoDestino(ano, link_info) ==
    [ano |-> ano, tipo |-> link_info.tipo, ext |-> FileExtension(link_info.url.s)]

\* an exists-check that never finds the file
DestinoExisteNunca(caminho) == FALSE

\* os.path.exists(caminho_destino)
DestinoExiste(caminho) == caminho \in DOMAIN arquivos

(***************************************************************************)
(* main                                                                    *)
(***************************************************************************)
MaxExecucoes == 2

MainIdle ==
    /\ m_pc = "idle"
    /\ execucao = 0
    /\ pagina = [tabs |-> <<>>]
    /\ driver = "none"
    /\ anos_disponiveis = <<>>
    /\ i_ano = 0
    /\ links_para_baixar = <<>>
    /\ i_link = 0
    /\ abas_tentadas = {}
    /\ anos_extraidos = {}
    /\ chamadas_baixar = 0
    /\ pulados = {}
    /\ resumo_emitido = FALSE
    /\ fatal = "none"
    /\ houve_falha = FALSE
    /\ anterior_completa = FALSE

\* the first process starts on an empty output directory
MainInit ==
    /\ m_pc = "start"
    /\ execucao = 1
    /\ pagina \in Paginas
    /\ driver = "none"
    /\ anos_disponiveis = <<>>
    /\ i_ano = 0
    /\ links_para_baixar = <<>>
    /\ i_link = 0
    /\ abas_tentadas = {}
    /\ anos_extraidos = {}
    /\ chamadas_baixar = 0
    /\ pulados = {}
    /\ resumo_emitido = FALSE
    /\ fatal = "none"
    /\ houve_falha = FALSE
    /\ anterior_completa = FALSE

ano_atual == anos_disponiveis[i_ano]

\* the variables of main that only the year loop changes
loopVars == <<anos_disponiveis, i_ano, links_para_baixar, i_link>>
\* what the run has done so far
historyVars ==
    <<abas_tentadas, anos_extraidos, chamadas_baixar, pulados>>
idleVars == <<normVars, classVars, extVars>>

\* iniciar_navegador without the entry it appends when the browser fails
IniciarNavegadorSemRegistro ==
    /\ m_pc = "start"
    /\ \E started \in BOOLEAN :
          IF started
          THEN /\ driver' = "open"
               /\ m_pc' = "acessar"
               /\ UNCHANGED <<REPORTS, fatal, houve_falha>>
          ELSE /\ driver' = "none"
               /\ fatal' = "navegador"
               /\ houve_falha' = TRUE
               /\ m_pc' = "finally"
               /\ UNCHANGED REPORTS
    /\ UNCHANGED <<execucao, pagina, loopVars, historyVars, resumo_emitido,
                   anterior_completa, dlVars, diskVars, idleVars>>

\* driver = iniciar_navegador(); if not driver: return
IniciarNavegador ==
    /\ m_pc = "start"
    /\ \E started \in BOOLEAN :
          IF started
          THEN /\ driver' = "open"
               /\ m_pc' = "acessar"
               /\ UNCHANGED <<REPORTS, fatal, houve_falha>>
          ELSE /\ driver' = "none"
               /\ REPORTS' = Append(REPORTS,
                     Diag("CRITICO", "Erro ao iniciar o navegador", "", ""))
               /\ fatal' = "navegador"
               /\ houve_falha' = TRUE
               /\ m_pc' = "finally"
    /\ UNCHANGED <<execucao, pagina, loopVars, historyVars, resumo_emitido,
                   anterior_completa, dlVars, diskVars, idleVars>>

\* if not acessar_pagina(driver, BASE_URL): return
AcessarPagina ==
    /\ m_pc = "acessar"
    /\ \E r \in {"ok", "timeout", "erro"} :
          IF r = "ok"
          THEN /\ m_pc' = "anos"
               /\ UNCHANGED <<REPORTS, houve_falha>>
          ELSE /\ REPORTS' = Append(REPORTS,
                     IF r = "timeout"
                     THEN Diag("ERRO", "Tempo limite excedido ao carregar a pagina inicial", "", "")
                     ELSE Diag("ERRO", "Erro ao acessar a pagina inicial", "", ""))
               /\ houve_falha' = TRUE
               /\ m_pc' = "finally"
    /\ UNCHANGED <<execucao, pagina, driver, loopVars, historyVars,
                   resumo_emitido, fatal, anterior_completa, dlVars, diskVars,
                   idleVars>>

\* anos_disponiveis = obter_anos_disponiveis(driver); if not anos_disponiveis:
\* report and return
ObterAnos ==
    /\ m_pc = "anos"
    /\ \E answered \in BOOLEAN :
          LET anos == IF answered THEN obter_anos_disponiveis(pagina.tabs)
                      ELSE <<>>
              erro == IF answered THEN <<>>
                      ELSE <<Diag("ERRO", "Erro ao obter anos disponiveis", "", "")>>
          IN /\ anos_disponiveis' = anos
             /\ IF anos = <<>>
                THEN /\ REPORTS' = REPORTS \o erro \o
                          <<Diag("CRITICO", "Nenhum ano disponivel foi encontrado", "", "")>>
                     /\ fatal' = "sem_anos"
                     /\ houve_falha' = TRUE
                     /\ m_pc' = "finally"
                     /\ UNCHANGED i_ano
                ELSE /\ REPORTS' = REPORTS \o erro
                     /\ i_ano' = 1
                     /\ m_pc' = "ano"
                     /\ UNCHANGED <<fatal, houve_falha>>
    /\ UNCHANGED <<execucao, pagina, driver, links_para_baixar, i_link,
                   historyVars, resumo_emitido, anterior_completa, dlVars,
                   diskVars, idleVars>>

\* if not clicar_aba_ano(driver, ano): continue
ClicarAba ==
    /\ m_pc = "ano"
    /\ i_ano <= Len(anos_disponiveis)
    /\ abas_tentadas' = abas_tentadas \cup {ano_atual}
    /\ \E r \in {"ok", "timeout", "erro"} :
          IF r = "ok"
          THEN /\ m_pc' = "extrair"
               /\ UNCHANGED <<REPORTS, i_ano, houve_falha>>
          ELSE /\ REPORTS' = Append(REPORTS,
                     IF r = "timeout"
                     THEN Diag("ERRO", "Falha ao carregar conteudo da aba", ano_atual, "")
                     ELSE Diag("ERRO", "Erro ao interagir com a aba do ano", ano_atual, ""))
               /\ i_ano' = i_ano + 1
               /\ houve_falha' = TRUE
               /\ UNCHANGED m_pc
    /\ UNCHANGED <<execucao, pagina, driver, anos_disponiveis,
                   links_para_baixar, i_link, anos_extraidos, chamadas_baixar,
                   pulados, resumo_emitido, fatal, anterior_completa, dlVars,
                   diskVars, idleVars>>

\* links_para_baixar = extrair_links_provas_e_gabaritos(driver, ano);
\* if not links_para_baixar: report and continue
ExtrairAno ==
    /\ m_pc = "extrair"
    /\ \E r \in {extrair_links_provas_e_gabaritos(pagina.escopos[ano_atual],
                                                  ano_atual)} :
          /\ links_para_baixar' = r.links
          /\ anos_extraidos' = anos_extraidos \cup {ano_atual}
          /\ IF r.links = <<>>
             THEN /\ REPORTS' = REPORTS \o r.reports \o
                       <<Diag("AVISO", "Nenhum link relevante para baixar", ano_atual, "")>>
                  /\ i_ano' = i_ano + 1
                  /\ m_pc' = "ano"
             ELSE /\ REPORTS' = REPORTS \o r.reports
                  /\ m_pc' = "diretorio"
                  /\ UNCHANGED i_ano
    /\ UNCHANGED <<execucao, pagina, driver, anos_disponiveis, i_link,
                   abas_tentadas, chamadas_baixar, pulados, resumo_emitido,
                   fatal, houve_falha, anterior_completa, dlVars, diskVars,
                   idleVars>>

\* except Exception in main: report, then the finally block
ErroInesperado ==
    /\ REPORTS' = Append(REPORTS,
          Diag("CRITICO", "Erro inesperado no fluxo principal", "", ""))
    /\ houve_falha' = TRUE
    /\ m_pc' = "finally"

\* caminho_base_ano = criar_diretorio_ano(ano): os.makedirs creates the
\* directory or raises OSError, which only the handler of main catches
CriarDiretorio ==
    /\ m_pc = "diretorio"
    /\ \E created \in BOOLEAN :
          IF created \/ ano_atual \in diretorios
          THEN /\ diretorios' = diretorios \cup {ano_atual}
               /\ i_link' = 1
               /\ m_pc' = "link"
               /\ UNCHANGED <<REPORTS, houve_falha>>
          ELSE /\ ErroInesperado
               /\ UNCHANGED <<diretorios, i_link>>
    /\ UNCHANGED <<execucao, pagina, driver, anos_disponiveis, i_ano,
                   links_para_baixar, historyVars, resumo_emitido, fatal,
                   anterior_completa, dlVars, arquivos, idleVars>>

\* the body of the loop over links_para_baixar up to the call of
\* baixar_arquivo: url_download.split raises AttributeError on a None url;
\* an existing destination is skipped
ProcessarLink ==
    /\ m_pc = "link"
    /\ i_link <= Len(links_para_baixar)
    /\ LET link_info == links_para_baixar[i_link]
       IN IF link_info.url.none
          THEN /\ ErroInesperado
               /\ UNCHANGED <<i_link, chamadas_baixar, pulados, dlVars>>
          ELSE IF DestinoExiste(CaminhoDestino(ano_atual, link_info))
          THEN /\ pulados' = pulados \cup {CaminhoDestino(ano_atual, link_info)}
               /\ i_link' = i_link + 1
               /\ UNCHANGED <<m_pc, REPORTS, houve_falha, chamadas_baixar, dlVars>>
          ELSE /\ StartDownload(CaminhoDestino(ano_atual, link_info),
                                MaxRetriesDefault)
               /\ chamadas_baixar' = chamadas_baixar + 1
               /\ m_pc' = "baixando"
               /\ UNCHANGED <<i_link, REPORTS, houve_falha, pulados>>
    /\ UNCHANGED <<execucao, pagina, driver, anos_disponiveis, i_ano,
                   links_para_baixar, abas_tentadas, anos_extraidos,
                   resumo_emitido, fatal, anterior_completa, diskVars, idleVars>>

\* baixar_arquivo returned (its value is not used); gerar_atraso_aleatorio
RetornoBaixar ==
    /\ m_pc = "baixando"
    /\ dl_pc = "done"
    /\ ReturnFromDownload
    /\ houve_falha' = (houve_falha \/ dl_result = "False")
    /\ i_link' = i_link + 1
    /\ m_pc' = "link"
    /\ UNCHANGED <<execucao, pagina, driver, anos_disponiveis, i_ano,
                   links_para_baixar, historyVars, resumo_emitido, fatal,
                   anterior_completa, REPORTS, diskVars, idleVars>>

\* the loop over links_para_baixar ends: the next year
FimDosLinks ==
    /\ m_pc = "link"
    /\ i_link > Len(links_para_baixar)
    /\ i_ano' = i_ano + 1
    /\ m_pc' = "ano"
    /\ UNCHANGED <<execucao, pagina, driver, anos_disponiveis,
                   links_para_baixar, i_link, historyVars, resumo_emitido,
                   fatal, houve_falha, anterior_completa, dlVars, REPORTS,
                   diskVars, idleVars>>

\* the loop over anos_disponiveis ends
FimDosAnos ==
    /\ m_pc = "ano"
    /\ i_ano > Len(anos_disponiveis)
    /\ m_pc' = "finally"
    /\ UNCHANGED <<execucao, pagina, driver, loopVars, historyVars,
                   resumo_emitido, fatal, houve_falha, anterior_completa,
                   dlVars, REPORTS, diskVars, idleVars>>

\* finally: finalizar_navegador(driver) when there is one (a failing quit is
\* logged only), then the summary of REPORTS
Finalizar ==
    /\ m_pc = "finally"
    /\ driver' = IF driver = "open" THEN "closed" ELSE driver
    /\ resumo_emitido' = TRUE
    /\ m_pc' = "done"
    /\ UNCHANGED <<execucao, pagina, loopVars, historyVars, fatal, houve_falha,
                   anterior_completa, dlVars, REPORTS, diskVars, idleVars>>

\* the program is run again over the same page: a new process, whose
\* REPORTS is empty, on the output directory the runs before it left
NovaExecucao ==
    /\ m_pc = "done"
    /\ execucao < MaxExecucoes
    /\ execucao' = execucao + 1
    /\ anterior_completa' = ~houve_falha
    /\ m_pc' = "start"
    /\ driver' = "none"
    /\ anos_disponiveis' = <<>>
    /\ i_ano' = 0
    /\ links_para_baixar' = <<>>
    /\ i_link' = 0
    /\ abas_tentadas' = {}
    /\ anos_extraidos' = {}
    /\ chamadas_baixar' = 0
    /\ pulados' = {}
    /\ resumo_emitido' = FALSE
    /\ fatal' = "none"
    /\ houve_falha' = FALSE
    /\ REPORTS' = <<>>
    /\ UNCHANGED <<pagina, dlVars, diskVars, idleVars>>

MainNext ==
    \/ IniciarNavegador \/ AcessarPagina \/ ObterAnos
    \/ ClicarAba \/ ExtrairAno \/ CriarDiretorio
    \/ ProcessarLink \/ RetornoBaixar \/ FimDosLinks \/ FimDosAnos
    \/ Finalizar \/ NovaExecucao

Next == MainNext \/ DlNext

Init ==
    /\ MainInit /\ DlIdle /\ NormIdle /\ ClassIdle /\ ExtIdle /\ DiskIdle
    /\ REPORTS = <<>>

vars ==
    <<normVars, classVars, extVars, dlVars, mainVars, REPORTS, diskVars>>

NormNext == Normalizar \/ Renormalizar

InitNorm ==
    /\ NormInit /\ ClassIdle /\ ExtIdle /\ DlIdle /\ MainIdle /\ DiskIdle
    /\ REPORTS = <<>>

SpecNorm == InitNorm /\ [][NormNext]_vars

InitClassify ==
    /\ ClassInit /\ NormIdle /\ ExtIdle /\ DlIdle /\ MainIdle /\ DiskIdle
    /\ REPORTS = <<>>

SpecClassify == InitClassify /\ [][Classificar]_vars

InitExtract ==
    /\ ExtInit /\ NormIdle /\ ClassIdle /\ DlIdle /\ MainIdle /\ DiskIdle
    /\ REPORTS = <<>>

SpecExtract == InitExtract /\ [][Extrair]_vars

\* what the process-wide report may hold when a download is called: nothing,
\* or an entry appended earlier in the run
RelatoriosAnteriores ==
    {<<>>, <<Diag("AVISO", "Nao encontrado o padrao", "2024", "regular_d1")>>}

InitDownload ==
    /\ DlInit /\ NormIdle /\ ClassIdle /\ ExtIdle /\ MainIdle
    /\ REPORTS \in RelatoriosAnteriores

SpecDownload == InitDownload /\ [][DlNext]_vars

Spec == Init /\ [][Next]_vars

(***************************************************************************)
(* C1                                                                      *)
(***************************************************************************)
AllTransient(os) == \A i \in 1..Len(os) : os[i].kind = "transient"

\* C1: only transient failures are retried and the first success ends the
\* call: every attempt before the last one failed transiently, at most
\* max_retries requests are made; a success after k transient failures
\* returns True after exactly k + 1 requests, and a call whose attempts all
\* failed transiently returns False after exactly max_retries requests
C1_RetriesOnlyTransient ==
    /\ requisicoes = Len(outcomes)
    /\ requisicoes <= max_retries
    /\ AllTransient(SubSeq(outcomes, 1, Len(outcomes) - 1))
    /\ dl_pc = "attempting" =>
          /\ AllTransient(outcomes)
          /\ requisicoes < max_retries
    /\ dl_pc = "done" =>
          /\ outcomes # <<>>
          /\ outcomes[Len(outcomes)].kind = "ok" => dl_result = "True"
          /\ dl_result = "True" => outcomes[Len(outcomes)].kind = "ok"
          /\ AllTransient(outcomes) =>
                /\ dl_result = "False"
                /\ requisicoes = max_retries

\* two transient failures, then success, with max_retries = 3: True after
\* three requests
C1_Witness ==
    /\ dl_pc = "done"
    /\ max_retries = 3
    /\ Len(outcomes) = 3
    /\ outcomes[1].kind = "transient"
    /\ outcomes[2].kind = "transient"
    /\ outcomes[3].kind = "ok"
    /\ dl_result = "True"
    /\ requisicoes = 3

(***************************************************************************)
(* C2                                                                      *)
(***************************************************************************)
\* C2: an attempt that fails with a non-transient request error or with any
\* other error is the last request of the call, which returns False at
\* once, however many attempts remain
C2_PermanentFailureEndsCall ==
    \A i \in 1..Len(outcomes) :
        outcomes[i].kind \in {"request", "generic"} =>
            /\ i = Len(outcomes)
            /\ requisicoes = i
            /\ dl_pc = "done"
            /\ dl_result = "False"

\* a request error on the first attempt of a call that had attempts left:
\* False after one request
C2_Witness ==
    /\ dl_pc = "done"
    /\ max_retries >= 3
    /\ Len(outcomes) = 1
    /\ outcomes[1].kind = "request"
    /\ requisicoes = 1
    /\ dl_result = "False"

(***************************************************************************)
(* C4                                                                      *)
(***************************************************************************)
\* C4: once the year list is discovered, the run has tried the tab of every
\* discovered year by the time it ends, whatever failed on the way
C4_EveryYearAttempted ==
    (m_pc = "done" /\ anos_disponiveis # <<>>) =>
        \A i \in 1..Len(anos_disponiveis) :
            anos_disponiveis[i] \in abas_tentadas

(***************************************************************************)
(* C6                                                                      *)
(***************************************************************************)
\* C6: a file that the exists-check of a run skipped as already downloaded
\* is a complete file, never one that a failed download left truncated
C6_SkippedFilesAreComplete ==
    \A p \in pulados : arquivos[p] = "complete"

(***************************************************************************)
(* C7                                                                      *)
(***************************************************************************)
\* main is at a link record whose destination already exists
AtExistingDestination ==
    /\ m_pc = "link"
    /\ i_link <= Len(links_para_baixar)
    /\ ~links_para_baixar[i_link].url.none
    /\ CaminhoDestino(ano_atual, links_para_baixar[i_link]) \in DOMAIN arquivos

\* C7: at a link record whose destination already exists main goes on to
\* the next record without calling baixar_arquivo (no request, no entry in
\* REPORTS) and leaves the files as they are; and a run that follows a run
\* without any failure over the same page calls baixar_arquivo zero times
C7_ExistingDestinationSkipped ==
    /\ [][AtExistingDestination =>
            /\ i_link' = i_link + 1
            /\ chamadas_baixar' = chamadas_baixar
            /\ dl_pc' = "idle"
            /\ requisicoes' = 0
            /\ REPORTS' = REPORTS
            /\ arquivos' = arquivos]_vars
    /\ [](anterior_completa => chamadas_baixar = 0 /\ requisicoes = 0)

\* the end of a second run that followed a run without failure: it tried
\* the tabs, skipped every file and downloaded none
C7_Witness ==
    /\ m_pc = "done"
    /\ execucao = 2
    /\ anterior_completa
    /\ Cardinality(pulados) = 3
    /\ chamadas_baixar = 0
    /\ \A p \in pulados : arquivos[p] = "complete"

(***************************************************************************)
(* C10                                                                     *)
(***************************************************************************)
\* C10: after a fatal condition (the browser did not start, or no year was
\* discovered) the run only ends: no tab is tried, nothing is extracted or
\* downloaded, REPORTS holds a critical entry, and the summary is emitted
\* when the run is over
C10_FatalAbortsRun ==
    fatal # "none" =>
        /\ m_pc \in {"finally", "done"}
        /\ abas_tentadas = {}
        /\ anos_extraidos = {}
        /\ chamadas_baixar = 0
        /\ pulados = {}
        /\ \E i \in 1..Len(REPORTS) : REPORTS[i].nivel = "CRITICO"
        /\ m_pc = "done" => resumo_emitido

\* a run over a page whose only tab is "Sobre", ended for want of years
C10_Witness ==
    /\ m_pc = "done"
    /\ fatal = "sem_anos"
    /\ driver = "closed"
    /\ pagina.tabs # <<>>
    /\ resumo_emitido

(***************************************************************************)
(* C3                                                                      *)
(***************************************************************************)
\* the href of the earliest anchor whose normalized text contains keyword,
\* None when no anchor does
EarliestHref(links, keyword) ==
    LET matching == { i \in 1..Len(links) :
                        Contains(NormalizarTextoDaPagina(links[i].text), keyword) }
    IN IF matching = {} THEN None
       ELSE links[CHOOSE i \in matching : \A j \in matching : i <= j].href

\* C3: over a harvested sequence whose anchors all carry an href, the exam
\* URL is the href of the earliest anchor whose normalized text contains
\* "prova" and the answer-key URL the href of the earliest anchor whose
\* normalized text contains "gabarito", each latch independent of the other
C3_EarliestIndependentLatches ==
    (c_pc = "done" /\ \A i \in 1..Len(harvested) : Truthy(harvested[i].href)) =>
        /\ prova_link_found = EarliestHref(harvested, kw_prova)
        /\ gabarito_link_found = EarliestHref(harvested, kw_gabarito)

(***************************************************************************)
(* C8                                                                      *)
(***************************************************************************)
Catalogo == CategoriasAntesDoTema \o CategoriasDepoisDoTema

KeywordsOf(tipo) ==
    Catalogo[CHOOSE k \in 1..Len(Catalogo) : Catalogo[k].tipo = tipo].keywords

\* the positions of the callouts of the scope whose normalized text contains
\* every keyword of the category
Qualifying(scope, tipo) ==
    { i \in 1..Len(scope.callouts) :
        \A k \in 1..Len(KeywordsOf(tipo)) :
            Contains(NormalizarTextoDaPagina(scope.callouts[i].text),
                     KeywordsOf(tipo)[k]) }

\* C8: for every category the pass reached, the callout search found nothing
\* when no callout of the scope qualifies, and otherwise found the first
\* qualifying callout in document order
C8_FirstQualifyingCallout ==
    (e_pc = "done" /\ escopo.callout_query = "ok") =>
        \A k \in 1..Len(achados) :
            LET q == Qualifying(escopo, achados[k].tipo)
            IN /\ q = {} => achados[k].found_callout = 0
               /\ q # {} =>
                    /\ achados[k].found_callout \in q
                    /\ \A j \in q : achados[k].found_callout <= j

\* a pass in which two different callouts qualify for one category and the
\* first was found, and another category found none
C8_Witness ==
    /\ e_pc = "done"
    /\ escopo.callout_query = "ok"
    /\ \E k \in 1..Len(achados) :
          /\ Cardinality(Qualifying(escopo, achados[k].tipo)) = 2
          /\ escopo.callouts[1] # escopo.callouts[2]
          /\ achados[k].found_callout = 1
    /\ \E k \in 1..Len(achados) : achados[k].found_callout = 0

(***************************************************************************)
(* C5                                                                      *)
(***************************************************************************)
\* the number of entries of REPORTS written for a category ("" for the
\* entries that name no callout category)
ReportsFor(tipo) == Cardinality({ i \in 1..Len(REPORTS) : REPORTS[i].tipo = tipo })

\* C5 as stated: on a found year-scope with zero callout elements the pass
\* returns no record and appends exactly 7 diagnostics
C5_ZeroCalloutsSevenDiagnostics ==
    (e_pc = "done" /\ escopo.container = "found" /\ escopo.callout_query = "ok"
        /\ escopo.callouts = <<>>) =>
        /\ links_encontrados = <<>>
        /\ Len(REPORTS) = 7

\* C5 amended: on a found year-scope with zero callout elements, when the
\* essay theme search finds no anchor the pass returns no record and appends
\* exactly one diagnostic per catalog category, 7 in all; when it finds the
\* anchor the pass returns that one record and appends the 6 diagnostics of
\* the callout categories
C5_ZeroCalloutsPerCategory ==
    (e_pc = "done" /\ escopo.container = "found" /\ escopo.callout_query = "ok"
        /\ escopo.callouts = <<>>) =>
        /\ \A k \in 1..Len(Catalogo) : ReportsFor(Catalogo[k].tipo) <= 1
        /\ escopo.tema.status = "missing" =>
              /\ links_encontrados = <<>>
              /\ Len(REPORTS) = 7
              /\ \A k \in 1..Len(Catalogo) : ReportsFor(Catalogo[k].tipo) = 1
              /\ ReportsFor("") = 1
        /\ escopo.tema.status = "found" =>
              /\ Len(links_encontrados) = 1
              /\ links_encontrados[1].tipo = <<"reaplicacao_redacao">>
              /\ Len(REPORTS) = 6
              /\ \A k \in 1..Len(Catalogo) : ReportsFor(Catalogo[k].tipo) = 1

\* a finished pass over a found scope with no callout and no essay theme
\* anchor, with its 7 diagnostics
C5_Witness ==
    /\ e_pc = "done"
    /\ escopo.container = "found"
    /\ escopo.callout_query = "ok"
    /\ escopo.callouts = <<>>
    /\ escopo.tema.status = "missing"
    /\ Len(REPORTS) = 7

(***************************************************************************)
(* C9                                                                      *)
(***************************************************************************)
\* the shape of a NormalizedText: only a-z, 0-9 and single interior spaces
EhNormalizedText(s) ==
    /\ \A i \in 1..Len(s) : s[i] \in AlnumLower \cup {" "}
    /\ s # <<>> => s[1] # " " /\ s[Len(s)] # " "
    /\ \A i \in 1..(Len(s) - 1) : ~(s[i] = " " /\ s[i + 1] = " ")

\* C9: normalizing is idempotent, normalize(normalize(s)) = normalize(s) for
\* every text s and for None (whose normal form is the empty string), and
\* every output is made of a-z, 0-9 and single interior spaces only
C9_Idempotente ==
    /\ n_pc \in {"once", "twice"} =>
          /\ EhNormalizedText(normalizado)
          /\ texto.none => normalizado = <<>>
    /\ n_pc = "twice" => renormalizado = normalizado

\* a text that the normalizer changes into a non-empty normal form with an
\* interior space, normalized twice
C9_Witness ==
    /\ n_pc = "twice"
    /\ ~texto.none
    /\ texto.s # normalizado
    /\ \E i \in 1..Len(normalizado) : normalizado[i] = " "
    /\ \E i \in 1..Len(texto.s) : texto.s[i] \in NonAscii

(***************************************************************************)
(* C11                                                                     *)
(***************************************************************************)
TiposDe(categorias) == [k \in 1..Len(categorias) |-> categorias[k].tipo]

\* the category order with the essay theme after the six callout categories
OrdemTemaPorUltimo == TiposDe(Catalogo) \o <<"reaplicacao_redacao">>

\* the category order with the essay theme between the digital and the
\* re-application callout categories
OrdemTemaAntesDaReaplicacao ==
    TiposDe(CategoriasAntesDoTema) \o <<"reaplicacao_redacao">>
        \o TiposDe(CategoriasDepoisDoTema)

\* the category a link record belongs to
CategoriaDoLink(link) == link.tipo[1]

\* the category a diagnostic belongs to; "" for the diagnostics of the pass
\* as a whole (container not found, unexpected error)
CategoriaDoDiag(d) ==
    IF d.tipo # "" THEN d.tipo
    ELSE IF d.msg = "Tema da Redacao nao encontrado" THEN "reaplicacao_redacao"
    ELSE ""

\* the position of a category in an order; the diagnostics of the pass as a
\* whole come after every category
Posicao(ordem, categoria) ==
    IF categoria = "" THEN Len(ordem) + 1
    ELSE CHOOSE k \in 1..Len(ordem) : ordem[k] = categoria

EmOrdem(ordem, categorias) ==
    \A i \in 1..Len(categorias) : \A j \in 1..Len(categorias) :
        i < j => Posicao(ordem, categorias[i]) <= Posicao(ordem, categorias[j])

CategoriasDosLinks ==
    [i \in 1..Len(links_encontrados) |-> CategoriaDoLink(links_encontrados[i])]

CategoriasDosDiags == [i \in 1..Len(REPORTS) |-> CategoriaDoDiag(REPORTS[i])]

\* C11 as stated: after one extraction pass the returned link records and the
\* appended diagnostics appear in the category order regular-d1, regular-d2,
\* digital-d1, digital-d2, re-application-d1, re-application-d2, essay-theme
C11_TemaPorUltimo ==
    e_pc = "done" =>
        /\ EmOrdem(OrdemTemaPorUltimo, CategoriasDosLinks)
        /\ EmOrdem(OrdemTemaPorUltimo, CategoriasDosDiags)

\* C11 amended: after one extraction pass the returned link records and the
\* appended diagnostics appear in the category order regular-d1, regular-d2,
\* digital-d1, digital-d2, essay-theme, re-application-d1, re-application-d2,
\* the callout categories were processed in that order, and a diagnostic of
\* the pass as a whole comes last
C11_TemaAntesDaReaplicacao ==
    e_pc = "done" =>
        /\ EmOrdem(OrdemTemaAntesDaReaplicacao, CategoriasDosLinks)
        /\ EmOrdem(OrdemTemaAntesDaReaplicacao, CategoriasDosDiags)
        /\ EmOrdem(OrdemTemaAntesDaReaplicacao, TiposDe(achados))

\* a finished pass that returned records of a regular category, of the essay
\* theme and of a re-application category, and appended diagnostics for
\* categories on both sides of the essay theme
C11_Witness ==
    /\ e_pc = "done"
    /\ \E i \in 1..Len(links_encontrados) : \E j \in 1..Len(links_encontrados) :
        \E k \in 1..Len(links_encontrados) :
          /\ i < j /\ j < k
          /\ CategoriaDoLink(links_encontrados[i]) = "regular_d1"
          /\ CategoriaDoLink(links_encontrados[j]) = "reaplicacao_redacao"
          /\ CategoriaDoLink(links_encontrados[k]) = "reaplicacao_d2"
    /\ \E i \in 1..Len(REPORTS) : CategoriaDoDiag(REPORTS[i]) = "digital_d2"
    /\ \E i \in 1..Len(REPORTS) : CategoriaDoDiag(REPORTS[i]) = "reaplicacao_d1"

(***************************************************************************)
(* C12                                                                     *)
(***************************************************************************)
\* the records of one kind among the records of one call
DoTipo(links, kind) == { i \in 1..Len(links) : links[i].tipo[2] = kind }

\* the diagnostics with one message among the diagnostics of one call
ComMensagem(reports, msg) == { i \in 1..Len(reports) : reports[i].msg = msg }

\* C12: in one extraction pass every call of _extrair_prova_gabarito_links
\* contributes at most two records, at most one exam and at most one answer
\* key, all of its own category; when the callout is found and no unexpected
\* error occurs, each kind yields exactly one of a record and a
\* link-not-found diagnostic, whatever the other kind yields; when the
\* callout is not found the call yields no record and exactly one diagnostic
C12_UmPorTipo ==
    e_pc = "done" =>
        \A k \in 1..Len(achados) :
            LET a == achados[k]
                provas == Cardinality(DoTipo(a.links, "prova_azul"))
                gabaritos == Cardinality(DoTipo(a.links, "gabarito_azul"))
                sem_prova ==
                    Cardinality(ComMensagem(a.reports, "Link de prova nao encontrado"))
                sem_gabarito ==
                    Cardinality(ComMensagem(a.reports, "Link de gabarito nao encontrado"))
            IN /\ Len(a.links) <= 2
               /\ provas <= 1
               /\ gabaritos <= 1
               /\ Len(a.links) = provas + gabaritos
               /\ \A i \in 1..Len(a.links) : a.links[i].tipo[1] = a.tipo
               /\ \A i \in 1..Len(a.reports) : a.reports[i].tipo = a.tipo
               /\ (escopo.callout_query = "ok" /\ a.found_callout # 0) =>
                    /\ provas + sem_prova = 1
                    /\ gabaritos + sem_gabarito = 1
                    /\ Len(a.reports) = sem_prova + sem_gabarito
                    /\ provas = 1 <=> Truthy(a.prova)
                    /\ gabaritos = 1 <=> Truthy(a.gabarito)
               /\ (escopo.callout_query = "ok" /\ a.found_callout = 0) =>
                    /\ a.links = <<>>
                    /\ Len(a.reports) = 1
                    /\ a.reports[1].msg = "Nao encontrado o padrao"

\* a finished pass in which one call found its callout and recorded the
\* answer key although the exam link was missing, another call recorded the
\* exam although the answer key was missing, and a third found no callout
C12_Witness ==
    /\ e_pc = "done"
    /\ escopo.callout_query = "ok"
    /\ \E k \in 1..Len(achados) :
          /\ achados[k].found_callout # 0
          /\ DoTipo(achados[k].links, "gabarito_azul") # {}
          /\ ComMensagem(achados[k].reports, "Link de prova nao encontrado") # {}
    /\ \E k \in 1..Len(achados) :
          /\ achados[k].found_callout # 0
          /\ DoTipo(achados[k].links, "prova_azul") # {}
          /\ ComMensagem(achados[k].reports, "Link de gabarito nao encontrado") # {}
    /\ \E k \in 1..Len(achados) : achados[k].found_callout = 0

(***************************************************************************)
(* C13                                                                     *)
(***************************************************************************)
IsPrefix(s, t) == Len(s) <= Len(t) /\ \A i \in 1..Len(s) : s[i] = t[i]

\* C13: for every max_retries >= 1 and every sequence of attempt outcomes,
\* each step of a baixar_arquivo call leaves the earlier entries of REPORTS in
\* place; the step that ends the call in failure, by exhausted transient
\* retries or by a permanent error, appends exactly one entry, of level ERRO;
\* every other step, a retried transient failure or a success, appends none:
\* a failed call appends one diagnostic in all and a successful call none
C13_UmDiagnosticoTerminal ==
    [][ /\ IsPrefix(REPORTS, REPORTS')
        /\ (dl_pc' = "done" /\ dl_result' = "False") =>
              /\ Len(REPORTS') = Len(REPORTS) + 1
              /\ REPORTS'[Len(REPORTS')].nivel = "ERRO"
        /\ ~(dl_pc' = "done" /\ dl_result' = "False") => REPORTS' = REPORTS
      ]_vars

\* a call that was made with an earlier entry in REPORTS, failed transiently
\* on each of its two or more attempts and ended with the earlier entry
\* followed by the one diagnostic of the exhausted retries
C13_Witness ==
    /\ dl_pc = "done"
    /\ dl_result = "False"
    /\ max_retries >= 2
    /\ Len(outcomes) = max_retries
    /\ AllTransient(outcomes)
    /\ Len(REPORTS) = 2
    /\ <<REPORTS[1]>> \in RelatoriosAnteriores
    /\ REPORTS[2].msg = "Falha ao baixar apos tentativas"

====
